---------------------------- MODULE Spec2Model ----------------------------
(***************************************************************************)
(* A model of the packed-binary dataset engine of                          *)
(* src/demo/llama/dataset.py: the header parser (_read), the per-worker    *)
(* shard slice (PackedDataset.__iter__), the chunk window                  *)
(* (_load_n_chunks) and the sample iterator (__next__).                    *)
(*                                                                         *)
(* Bytes are naturals in 0..255 and a file is a sequence of bytes.  An     *)
(* exception is the name of its Python class, "none" when nothing raised.  *)
(*                                                                         *)
(* Two smaller parts follow: GCSFileSystem.rename of                       *)
(* src/dataflux_pytorch/lightning/gcs_filesystem.py and                    *)
(* configure_master_addr of src/demo/lightning/checkpoint/multinode/ddp.py *)
(* (the same function is in benchmark/checkpointing/simulated/benchmark.py)*)
(***************************************************************************)
EXTENDS Integers, Sequences, FiniteSets, TLC

VARIABLES
    store,      \* bucket contents: file name -> bytes (what download_single returns)
    ds,         \* the PackedDataset configuration shared by the processes of the job
    its,        \* worker <<process_rank, worker_id>> -> its PackedDatasetIterator, or NoIter
                \* (a third component numbers the calls of iter(dataset) in one worker)
    raised,     \* worker -> the exception raised by that worker's last call ("none" if it returned)
    fetched,    \* worker -> the file names passed to download_single, in call order
    outs,       \* worker -> the samples returned by next(), in call order
    hdr_src,    \* header specification: the fields a header is encoded from
    hdr_in,     \* header specification: the bytes handed to _read, or NoBytes before encoding
    hdr_out,    \* header specification: the outcome of _read, or NoResult before parsing
    cds,        \* the CombinedDataset: its PackedDatasets, seed and weights
    comb,       \* the CombinedDatasetIterator (child iterators, weights, generator), or NoIter
    comb_log,   \* what the consumer of the combined iterator has seen: the samples
                \* returned, the exception of the last call, the indices drawn, the
                \* children whose next() was called and the names downloaded
    blobs,      \* rename: the objects of the storage service, as <<bucket, name>>
    fs,         \* rename: the calls of GCSFileSystem.rename made so far: their number,
                \* the arguments and the exception of the last one, and the
                \* rename_blob requests issued to the storage client
    environ,    \* configure_master_addr: os.environ
    cma         \* configure_master_addr: the frame of the call (position, locals)
                \* and the outcomes of the lookups it has made

vars == <<store, ds, its, raised, fetched, outs, hdr_src, hdr_in, hdr_out, cds, comb, comb_log,
          blobs, fs, environ, cma>>

comb_vars == <<cds, comb, comb_log>>

aux_vars == <<blobs, fs, environ, cma>>

---------------------------------------------------------------------------
(* Bounds of the model. *)

\* the longest file list handed to a PackedDataset
MaxFiles == 5
\* the largest n_chunks (chunks per window)
MaxChunks == 2
\* the largest block_size (elements per sample)
MaxBlock == 3
\* the number of elements stored in each well-formed file
ChunkElems == 4
\* the largest num_processes * num_workers of a job
MaxShards == 4
\* the largest number of samples one iterator is asked for, and the number
\* of downloads after which it is asked for no more
MaxOut == 9
\* the largest number of PackedDatasets of a CombinedDataset
MaxSources == 2
\* the largest weight of a source
MaxWeight == 2

---------------------------------------------------------------------------
(* Python helpers. *)

Min(a, b) == IF a < b THEN a ELSE b

\* seq[start:] of Python, for 0 <= start (positions count from 0)
PyFrom(seq, start) == SubSeq(seq, start + 1, Len(seq))

\* seq[:n] of Python and io.BytesIO.read(n) at position 0, for 0 <= n
PyTake(seq, n) == SubSeq(seq, 1, Min(n, Len(seq)))

\* seq[start:stop:step] of Python for 0 <= start, 0 <= stop, 1 <= step:
\* the entries at positions start, start+step, ... below min(stop, len(seq))
PySlice(seq, start, stop, step) ==
    LET hi == Min(stop, Len(seq))
        n  == IF start >= hi THEN 0 ELSE (hi - start + step - 1) \div step
    IN  [j \in 1..n |-> seq[start + (j - 1) * step + 1]]

\* struct.unpack("<Q", b) and struct.unpack("<B", b): the little-endian
\* unsigned value of the bytes b
RECURSIVE LittleEndian(_)
LittleEndian(b) ==
    IF b = <<>> THEN 0 ELSE Head(b) + 256 * LittleEndian(Tail(b))

\* struct.pack("<Q", v) for width = 8 and struct.pack("<B", v) for width = 1
RECURSIVE PackLE(_, _)
PackLE(v, width) ==
    IF width = 0 THEN <<>> ELSE <<v % 256>> \o PackLE(v \div 256, width - 1)

---------------------------------------------------------------------------
(* The packed format. *)

\* dataset.py:16-25; a dtype is named by its numpy name
dtypes ==
    [k \in 1..8 |->
        CASE k = 1 -> "uint8"
          [] k = 2 -> "int8"
          [] k = 3 -> "int16"
          [] k = 4 -> "int32"
          [] k = 5 -> "int64"
          [] k = 6 -> "float32"
          [] k = 7 -> "float64"
          [] k = 8 -> "uint16"]

\* dataset.py:30-34; the keys are visited in insertion order 1..8 and the
\* first match is returned; "ValueError" when no key matches
RECURSIVE code_from(_, _)
code_from(dtype, k) ==
    IF k > 8 THEN "ValueError"
    ELSE IF dtypes[k] = dtype THEN k
    ELSE code_from(dtype, k + 1)

code(dtype) == code_from(dtype, 1)

\* dataset.py:37, b"LITPKDS" in ASCII
HDR_MAGIC == <<76, 73, 84, 80, 75, 68, 83>>

\* dataset.py:38
HDR_SIZE == 24

\* np.dtype(d).itemsize
itemsize(dtype) ==
    CASE dtype \in {"uint8", "int8"} -> 1
      [] dtype \in {"int16", "uint16"} -> 2
      [] dtype \in {"int32", "float32"} -> 4
      [] dtype \in {"int64", "float64"} -> 8

\* The documented layout of a header (spec section 6): magic at 0, version
\* at 7 (8 bytes, little endian), dtype code at 15 (1 byte), element count at
\* 16 (8 bytes, little endian).  The repository holds no writer.
EncodeHeader(magic, version, dtype_code, chunk_size) ==
    magic \o PackLE(version, 8) \o PackLE(dtype_code, 1) \o PackLE(chunk_size, 8)

NoBytes == <<-1>>
Unbound == <<-2>>

\* read without the assertion of line 115
read_no_magic(content) ==
    LET version_b == SubSeq(content, 8, Min(15, Len(content)))
        dtype_b   == SubSeq(content, 16, Min(16, Len(content)))
        size_b    == SubSeq(content, 17, Min(24, Len(content)))
        fail(e)   == [raised |-> e, dtype |-> "None", chunk_size |-> 0, bytes_io |-> Unbound]
    IN  IF Len(version_b) # 8 THEN fail("struct.error")
        ELSE IF LittleEndian(version_b) # 1 THEN fail("AssertionError")
        ELSE IF Len(dtype_b) # 1 THEN fail("struct.error")
        ELSE IF LittleEndian(dtype_b) \notin DOMAIN dtypes THEN fail("KeyError")
        ELSE IF Len(size_b) # 8 THEN fail("struct.error")
        ELSE [raised |-> "none", dtype |-> dtypes[LittleEndian(dtype_b)],
              chunk_size |-> LittleEndian(size_b), bytes_io |-> content]

\* read with the element count unpacked one byte early
read_size_offset(content) ==
    LET magic     == PyTake(content, Len(HDR_MAGIC))
        version_b == SubSeq(content, 8, Min(15, Len(content)))
        dtype_b   == SubSeq(content, 16, Min(16, Len(content)))
        size_b    == SubSeq(content, 16, Min(23, Len(content)))
        fail(e)   == [raised |-> e, dtype |-> "None", chunk_size |-> 0, bytes_io |-> Unbound]
    IN  IF magic # HDR_MAGIC THEN fail("AssertionError")
        ELSE IF Len(version_b) # 8 THEN fail("struct.error")
        ELSE IF LittleEndian(version_b) # 1 THEN fail("AssertionError")
        ELSE IF Len(dtype_b) # 1 THEN fail("struct.error")
        ELSE IF LittleEndian(dtype_b) \notin DOMAIN dtypes THEN fail("KeyError")
        ELSE IF Len(size_b) # 8 THEN fail("struct.error")
        ELSE [raised |-> "none", dtype |-> dtypes[LittleEndian(dtype_b)],
              chunk_size |-> LittleEndian(size_b), bytes_io |-> content]

\* dataset.py:110-121 after the download: bytes_io.read(n) returns at most n
\* bytes and fewer at the end of the content; struct.unpack raises
\* struct.error unless it is given exactly the bytes of its format.
read(content) ==
    LET magic     == PyTake(content, Len(HDR_MAGIC))
        version_b == SubSeq(content, 8, Min(15, Len(content)))
        dtype_b   == SubSeq(content, 16, Min(16, Len(content)))
        size_b    == SubSeq(content, 17, Min(24, Len(content)))
        fail(e)   == [raised |-> e, dtype |-> "None", chunk_size |-> 0, bytes_io |-> Unbound]
    IN  IF magic # HDR_MAGIC THEN fail("AssertionError")
        ELSE IF Len(version_b) # 8 THEN fail("struct.error")
        ELSE IF LittleEndian(version_b) # 1 THEN fail("AssertionError")
        ELSE IF Len(dtype_b) # 1 THEN fail("struct.error")
        ELSE IF LittleEndian(dtype_b) \notin DOMAIN dtypes THEN fail("KeyError")
        ELSE IF Len(size_b) # 8 THEN fail("struct.error")
        ELSE [raised |-> "none", dtype |-> dtypes[LittleEndian(dtype_b)],
              chunk_size |-> LittleEndian(size_b), bytes_io |-> content]


---------------------------------------------------------------------------
(* The shard of a worker. *)

\* shard_filenames without the truncation of line 68
shard_filenames_no_truncation(d, w) ==
    LET num_shards == d.num_workers * d.num_processes
        shard_id   == w[1] * d.num_workers + w[2]
    IN  PySlice(d.filenames, shard_id, Len(d.filenames), num_shards)

\* shard_filenames with the rank multiplied by num_processes at line 66
shard_filenames_rank_stride(d, w) ==
    LET num_shards    == d.num_workers * d.num_processes
        shard_id      == w[1] * d.num_processes + w[2]
        max_num_files == (Len(d.filenames) \div num_shards) * num_shards
    IN  PySlice(d.filenames, shard_id, max_num_files, num_shards)

\* shard_filenames without the worker id at line 66
shard_filenames_no_worker_id(d, w) ==
    LET num_shards    == d.num_workers * d.num_processes
        shard_id      == w[1] * d.num_workers
        max_num_files == (Len(d.filenames) \div num_shards) * num_shards
    IN  PySlice(d.filenames, shard_id, max_num_files, num_shards)

\* dataset.py:62-69: the worker's identity is w = <<process_rank, worker_id>>,
\* num_workers is what get_worker_info() reports (1 without a DataLoader)
shard_filenames(d, w) ==
    LET num_workers   == d.num_workers
        worker_id     == w[2]
        num_shards    == num_workers * d.num_processes
        shard_id      == w[1] * num_workers + worker_id
        max_num_files == (Len(d.filenames) \div num_shards) * num_shards
    IN  PySlice(d.filenames, shard_id, max_num_files, num_shards)

---------------------------------------------------------------------------
(* The generator of the shuffle.  numpy's PCG64 is outside the repository;  *)
(* it is modelled as a deterministic generator whose state is a number and  *)
(* whose permutation(n) is a Fisher-Yates shuffle of 0..n-1 that consumes   *)
(* one draw per position.                                                   *)

NoRng == -1

\* np.random.default_rng(seed), dataset.py:86
default_rng(seed) == seed % 64

rng_advance(s) == (s * 37 + 11) % 64

RECURSIVE fisher_yates(_, _, _)
fisher_yates(perm, s, i) ==
    IF i < 2 THEN [perm |-> perm, rng |-> s]
    ELSE LET s1 == rng_advance(s)
             j  == (s1 % i) + 1
             sw == [perm EXCEPT ![i] = perm[j], ![j] = perm[i]]
         IN  fisher_yates(sw, s1, i - 1)

\* self._rng.permutation(n), dataset.py:150
permutation(s, n) == fisher_yates([k \in 1..n |-> k - 1], s, n)

---------------------------------------------------------------------------
(* PackedDatasetIterator. *)

NoIter == [none |-> TRUE]
NoneInt == -1

\* dataset.py:84-104, the fields before the first load; _mmaps is never
\* appended to in this file and _close_mmaps therefore does nothing
new_iterator(filenames, n_chunks, block_size, seed, shuffle, wrap) ==
    [seed       |-> seed,
     shuffle    |-> shuffle,
     rng        |-> IF shuffle THEN default_rng(seed) ELSE NoRng,
     wrap       |-> wrap,
     filenames  |-> filenames,
     file_idx   |-> 0,
     n_chunks   |-> n_chunks,
     dtype      |-> "None",
     chunk_size |-> NoneInt,
     block_size |-> block_size,
     n_blocks   |-> NoneInt,
     buffers    |-> <<>>,
     block_idxs |-> <<>>,
     curr_idx   |-> 0]

\* The frame of a call of _load_n_chunks: the iterator, the local bytes_io
\* (Unbound until line 141 assigns it), the names handed to download_single
\* by this call and the exception raised.
load_frame(it) == [it |-> it, bytes_io |-> Unbound, fetched |-> <<>>, raised |-> "none"]

\* load_read with the number of blocks of a chunk rounded up
load_read_round_up(c, filename, r) ==
    IF r.raised # "none"
    THEN [c EXCEPT !.raised = r.raised, !.fetched = Append(@, filename)]
    ELSE [c EXCEPT !.fetched = Append(@, filename),
                   !.bytes_io = r.bytes_io,
                   !.it.dtype = r.dtype,
                   !.it.chunk_size = r.chunk_size,
                   !.it.n_blocks = (r.chunk_size + c.it.block_size - 1) \div c.it.block_size]

\* dataset.py:141-142, r being what self._read(filename) returned or raised
load_read(c, filename, r) ==
    IF r.raised # "none"
    THEN [c EXCEPT !.raised = r.raised, !.fetched = Append(@, filename)]
    ELSE [c EXCEPT !.fetched = Append(@, filename),
                   !.bytes_io = r.bytes_io,
                   !.it.dtype = r.dtype,
                   !.it.chunk_size = r.chunk_size,
                   !.it.n_blocks = r.chunk_size \div c.it.block_size]

\* load_append with the seek one byte past the header
load_append_seek_past(c) ==
    IF c.raised # "none" THEN c
    ELSE IF c.bytes_io = Unbound THEN [c EXCEPT !.raised = "UnboundLocalError"]
    ELSE [c EXCEPT !.it.buffers = Append(@, PyFrom(c.bytes_io, HDR_SIZE + 1))]

\* dataset.py:144-145: bytes_io.seek(HDR_SIZE) and the append of
\* bytes_io.read(); reading a local that was never assigned raises
\* UnboundLocalError
load_append(c) ==
    IF c.raised # "none" THEN c
    ELSE IF c.bytes_io = Unbound THEN [c EXCEPT !.raised = "UnboundLocalError"]
    ELSE [c EXCEPT !.it.buffers = Append(@, PyFrom(c.bytes_io, HDR_SIZE))]

\* dataset.py:140-145: the file is read only while self._dtype is None
load_file(c, filename, st) ==
    load_append(IF c.it.dtype = "None" THEN load_read(c, filename, read(st[filename])) ELSE c)

\* dataset.py:138-145, iteration i of the loop and those after it
RECURSIVE load_loop(_, _, _)
load_loop(c, i, st) ==
    IF i >= c.it.n_chunks \/ c.raised # "none" THEN c
    ELSE IF c.it.file_idx + i >= Len(c.it.filenames) THEN [c EXCEPT !.raised = "IndexError"]
    ELSE load_loop(load_file(c, c.it.filenames[c.it.file_idx + i + 1], st), i + 1, st)

\* dataset.py:150-151 with shuffle, p being the generator's permutation
load_shuffled(it, p) == [it EXCEPT !.block_idxs = p.perm, !.rng = p.rng]

\* load_blocks with one block index too many
load_blocks_one_more(it, n_all_blocks) ==
    IF it.shuffle
    THEN [load_shuffled(it, permutation(it.rng, n_all_blocks + 1)) EXCEPT !.curr_idx = 0]
    ELSE [it EXCEPT !.block_idxs = [k \in 1..(n_all_blocks + 1) |-> k - 1], !.curr_idx = 0]

\* dataset.py:148-153
load_blocks(it, n_all_blocks) ==
    IF it.shuffle
    THEN [load_shuffled(it, permutation(it.rng, n_all_blocks)) EXCEPT !.curr_idx = 0]
    ELSE [it EXCEPT !.block_idxs = [k \in 1..n_all_blocks |-> k - 1], !.curr_idx = 0]

\* load_finish with the file cursor advanced by one file
load_finish_advance_one(c) ==
    IF c.raised # "none"
    THEN [it |-> c.it, raised |-> c.raised, fetched |-> c.fetched]
    ELSE [it |-> load_blocks([c.it EXCEPT !.file_idx = @ + 1],
                             c.it.n_chunks * c.it.n_blocks),
          raised |-> "none", fetched |-> c.fetched]

\* dataset.py:147-153 when the loop has ended; an exception of the loop
\* leaves the call before line 147
load_finish(c) ==
    IF c.raised # "none"
    THEN [it |-> c.it, raised |-> c.raised, fetched |-> c.fetched]
    ELSE [it |-> load_blocks([c.it EXCEPT !.file_idx = @ + c.it.n_chunks],
                             c.it.n_chunks * c.it.n_blocks),
          raised |-> "none", fetched |-> c.fetched]

\* dataset.py:138-153
load_from(it, st) == load_finish(load_loop(load_frame(it), 0, st))

\* load_window with the file cursor rewound when the end of the shard is signalled
load_window_stop_rewinds(it, st) ==
    IF it.n_chunks > Len(PyFrom(it.filenames, it.file_idx))
    THEN IF ~it.wrap
         THEN [it |-> [it EXCEPT !.file_idx = 0], raised |-> "StopIteration", fetched |-> <<>>]
         ELSE load_from([it EXCEPT !.file_idx = 0], st)
    ELSE load_from(it, st)

\* dataset.py:132-153
load_window(it, st) ==
    IF it.n_chunks > Len(PyFrom(it.filenames, it.file_idx))
    THEN IF ~it.wrap
         THEN [it |-> it, raised |-> "StopIteration", fetched |-> <<>>]
         ELSE load_from([it EXCEPT !.file_idx = 0], st)
    ELSE load_from(it, st)

\* load_n_chunks without the reset of line 130
load_n_chunks_keeps_buffers(it, st) == load_window(it, st)

\* dataset.py:127-153
load_n_chunks(it, st) == load_window([it EXCEPT !.buffers = <<>>], st)

\* dataset.py:83-108
PackedDatasetIterator_init(filenames, n_chunks, block_size, seed, shuffle, wrap, st) ==
    load_n_chunks(new_iterator(filenames, n_chunks, block_size, seed, shuffle, wrap), st)

\* the two's-complement little-endian value of the bytes b
RECURSIVE SignedLittleEndian(_)
SignedLittleEndian(b) ==
    IF Len(b) = 1 THEN (IF b[1] >= 128 THEN b[1] - 256 ELSE b[1])
    ELSE Head(b) + 256 * SignedLittleEndian(Tail(b))

\* the value of the itemsize bytes b as an element of dtype, widened by
\* astype(np.int64); a floating-point element is kept as its dtype and bytes
decode_elem(dtype, b) ==
    CASE dtype \in {"uint8", "uint16"} -> LittleEndian(b)
      [] dtype \in {"int8", "int16", "int32", "int64"} -> SignedLittleEndian(b)
      [] OTHER -> <<dtype, b>>

\* np.frombuffer(buffer, dtype=dtype, count=count, offset=offset), which
\* raises ValueError when the buffer ends before the last element
frombuffer(buffer, dtype, count, offset) ==
    LET sz == itemsize(dtype)
    IN  IF offset + count * sz > Len(buffer) THEN [raised |-> "ValueError", arr |-> <<>>]
        ELSE [raised |-> "none",
              arr |-> [k \in 1..count |->
                decode_elem(dtype, SubSeq(buffer, offset + (k - 1) * sz + 1, offset + k * sz))]]

\* dataset.py:168-177 for the block index taken at line 167
serve_block(it, block_idx, chunk_id, elem_id) ==
    IF chunk_id >= Len(it.buffers)
    THEN [raised |-> "IndexError", arr |-> <<>>]
    ELSE frombuffer(it.buffers[chunk_id + 1], it.dtype, it.block_size,
                    itemsize(it.dtype) * elem_id)

\* dataset.py:176-177, a being the outcome of np.frombuffer
serve_result(it, a) ==
    IF a.raised # "none"
    THEN [it |-> it, raised |-> a.raised, sample |-> <<>>]
    ELSE [it |-> [it EXCEPT !.curr_idx = @ + 1], raised |-> "none", sample |-> a.arr]

\* serve_at with the block's position in its chunk taken as the element offset
serve_at_block_offset(it, block_idx) ==
    serve_result(it, serve_block(it, block_idx, block_idx \div it.n_blocks,
                                 block_idx % it.n_blocks))

\* dataset.py:167-177, on an iterator whose window is loaded
serve_at(it, block_idx) ==
    serve_result(it, serve_block(it, block_idx, block_idx \div it.n_blocks,
                                 (block_idx % it.n_blocks) * it.block_size))

serve(it) ==
    IF it.curr_idx >= Len(it.block_idxs)
    THEN [it |-> it, raised |-> "IndexError", sample |-> <<>>]
    ELSE serve_at(it, it.block_idxs[it.curr_idx + 1])

\* the outcome s of lines 167-177 with the names fetched by the call
next_result(s, names) ==
    [it |-> s.it, raised |-> s.raised, sample |-> s.sample, fetched |-> names]

\* dataset.py:165-177, l being the outcome of self._load_n_chunks()
next_loaded(l) ==
    IF l.raised # "none"
    THEN [it |-> l.it, raised |-> l.raised, sample |-> <<>>, fetched |-> l.fetched]
    ELSE next_result(serve(l.it), l.fetched)

\* PackedDatasetIterator_next with the reload started one block early
PackedDatasetIterator_next_reloads_early(it, st) ==
    IF it.curr_idx + 1 >= Len(it.block_idxs)
    THEN next_loaded(load_n_chunks(it, st))
    ELSE next_result(serve(it), <<>>)

\* dataset.py:163-177
PackedDatasetIterator_next(it, st) ==
    IF it.curr_idx >= Len(it.block_idxs)
    THEN next_loaded(load_n_chunks(it, st))
    ELSE next_result(serve(it), <<>>)

---------------------------------------------------------------------------
(* The bucket and the configurations the model is run on. *)

FileNames == <<"f1", "f2", "f3", "f4", "f5", "f6", "f7", "f8">>

\* the position of a name in FileNames
NameIndex(name) == CHOOSE k \in 1..Len(FileNames) : FileNames[k] = name

\* n payload bytes, different in every file
Payload(k, n) == [j \in 1..n |-> 10 * k + j - 1]

BAD_MAGIC == <<76, 73, 84, 80, 75, 68, 88>>

\* file k of the bucket, by kind: a well-formed uint8 file of ChunkElems
\* elements, the same file with a wrong magic, or a well-formed int16 file
FileOfKind(kind, k) ==
    CASE kind = "uint8" ->
           EncodeHeader(HDR_MAGIC, 1, 1, ChunkElems) \o Payload(k, ChunkElems)
      [] kind = "badmagic" ->
           EncodeHeader(BAD_MAGIC, 1, 1, ChunkElems) \o Payload(k, ChunkElems)
      [] kind = "int16" ->
           EncodeHeader(HDR_MAGIC, 1, 3, ChunkElems \div 2)
             \o Payload(k, 2 * (ChunkElems \div 2))

\* buckets of well-formed uint8 files in which at most one file deviates,
\* and the bucket of int16 files
Stores(nfiles) ==
    {[name \in {FileNames[k] : k \in 1..MaxFiles} |-> FileOfKind("uint8", NameIndex(name))]}
    \cup {[name \in {FileNames[k] : k \in 1..MaxFiles} |-> FileOfKind("int16", NameIndex(name))]}
    \cup {[name \in {FileNames[k] : k \in 1..MaxFiles} |->
              IF NameIndex(name) = p THEN FileOfKind(kind, p)
              ELSE FileOfKind("uint8", NameIndex(name))]
          : p \in 1..nfiles, kind \in {"badmagic", "int16"}}

\* the list f1..fn
Distinct(n) == [k \in 1..n |-> FileNames[k]]

\* the lists f1..fn, and those in which f1 is repeated at one later position
FileLists ==
    {Distinct(n) : n \in 0..MaxFiles}
    \cup {[Distinct(n) EXCEPT ![q] = FileNames[1]] :
            <<n, q>> \in {t \in (2..MaxFiles) \X (2..MaxFiles) : t[2] <= t[1]}}

Seeds == {12345, 7}

Workers(d) == (0..(d.num_processes - 1)) \X (0..(d.num_workers - 1))

NoHdr == [none |-> TRUE]
NoResult == [none |-> TRUE]
NoCombined == [none |-> TRUE]

\* what the consumer of a combined iterator has seen before its first call
NoLog == [outs |-> <<>>, raised |-> "none", picks |-> <<>>, pulls |-> <<>>, fetched |-> <<>>]

\* no CombinedDataset is in use
CombIdle ==
    /\ cds = NoCombined
    /\ comb = NoIter
    /\ comb_log = NoLog

\* a path that parse_gcs_path rejects
BadPath == [bad |-> TRUE]

\* no call of GCSFileSystem.rename has been made
NoFs == [count |-> 0, path |-> BadPath, new_path |-> BadPath, raised |-> "none", issued |-> <<>>]

NoEnviron == [none |-> TRUE]
NoFrame == [none |-> TRUE]

\* neither GCSFileSystem.rename nor configure_master_addr is in use
AuxIdle ==
    /\ blobs = {}
    /\ fs = NoFs
    /\ environ = NoEnviron
    /\ cma = NoFrame

IterInit ==
    /\ its = [w \in Workers(ds) |-> NoIter]
    /\ raised = [w \in Workers(ds) |-> "none"]
    /\ fetched = [w \in Workers(ds) |-> <<>>]
    /\ outs = [w \in Workers(ds) |-> <<>>]
    /\ hdr_src = NoHdr
    /\ hdr_in = NoBytes
    /\ hdr_out = NoResult
    /\ CombIdle
    /\ AuxIdle

\* one process, no DataLoader workers: the iterator reads the whole list
Init ==
    /\ \E n \in 0..MaxFiles :
         /\ store \in Stores(n)
         /\ \E n_chunks \in 1..MaxChunks, block_size \in 1..MaxBlock,
               wrap \in BOOLEAN, shuffle \in BOOLEAN, seed \in Seeds :
              /\ shuffle \/ seed = 12345
              /\ ds = [filenames |-> Distinct(n), n_chunks |-> n_chunks,
                       block_size |-> block_size, seed |-> seed, shuffle |-> shuffle,
                       wrap |-> wrap, num_processes |-> 1, num_workers |-> 1]
    /\ IterInit

\* a job of num_processes processes, each with num_workers DataLoader workers,
\* over well-formed files served one chunk per sample
JobInit ==
    /\ store \in Stores(0)
    /\ \E filenames \in FileLists, n_chunks \in 1..MaxChunks, wrap \in BOOLEAN,
          num_processes \in 1..MaxShards, num_workers \in 1..MaxShards :
         /\ num_processes * num_workers <= MaxShards
         /\ ds = [filenames |-> filenames, n_chunks |-> n_chunks,
                  block_size |-> ChunkElems, seed |-> 12345, shuffle |-> FALSE,
                  wrap |-> wrap, num_processes |-> num_processes,
                  num_workers |-> num_workers]
    /\ IterInit

\* the two calls of iter(dataset) made in the worker <<0, 0>>, as
\* <<process_rank, worker_id, call>>
Calls == {<<0, 0, 1>>, <<0, 0, 2>>}

\* one process, no DataLoader workers, and two iterators of the one dataset
PairInit ==
    /\ \E n \in 0..MaxFiles :
         /\ store \in Stores(n)
         /\ \E n_chunks \in 1..MaxChunks, block_size \in 1..MaxBlock,
               wrap \in BOOLEAN, shuffle \in BOOLEAN, seed \in Seeds :
              /\ shuffle \/ seed = 12345
              /\ ds = [filenames |-> Distinct(n), n_chunks |-> n_chunks,
                       block_size |-> block_size, seed |-> seed, shuffle |-> shuffle,
                       wrap |-> wrap, num_processes |-> 1, num_workers |-> 1]
    /\ its = [w \in Calls |-> NoIter]
    /\ raised = [w \in Calls |-> "none"]
    /\ fetched = [w \in Calls |-> <<>>]
    /\ outs = [w \in Calls |-> <<>>]
    /\ hdr_src = NoHdr
    /\ hdr_in = NoBytes
    /\ hdr_out = NoResult
    /\ CombIdle
    /\ AuxIdle

\* the effect on worker w of a constructor call with outcome r
SpawnResult(w, r) ==
    /\ its' = [its EXCEPT ![w] = IF r.raised = "none" THEN r.it ELSE NoIter]
    /\ raised' = [raised EXCEPT ![w] = r.raised]
    /\ fetched' = [fetched EXCEPT ![w] = @ \o r.fetched]

\* Spawn with the generator seeded by the seed plus the number of the call
Spawn_seed_by_call(w) ==
    /\ its[w] = NoIter
    /\ raised[w] = "none"
    /\ SpawnResult(w, PackedDatasetIterator_init(shard_filenames(ds, w), ds.n_chunks,
                         ds.block_size, ds.seed + w[3], ds.shuffle, ds.wrap, store))
    /\ UNCHANGED <<store, ds, outs, hdr_src, hdr_in, hdr_out>>
    /\ UNCHANGED comb_vars
    /\ UNCHANGED aux_vars

\* dataset.py:61-78: iter(dataset) in worker w.  An exception of the
\* constructor leaves the worker without an iterator.
Spawn(w) ==
    /\ its[w] = NoIter
    /\ raised[w] = "none"
    /\ SpawnResult(w, PackedDatasetIterator_init(shard_filenames(ds, w), ds.n_chunks,
                         ds.block_size, ds.seed, ds.shuffle, ds.wrap, store))
    /\ UNCHANGED <<store, ds, outs, hdr_src, hdr_in, hdr_out>>
    /\ UNCHANGED comb_vars
    /\ UNCHANGED aux_vars

\* NextResult with one generator shared by the iterators: the state the
\* generator is left in is seen by every iterator
NextResult_shared_rng(w, r) ==
    /\ its' = [x \in DOMAIN its |->
                 IF x = w THEN r.it
                 ELSE IF its[x] # NoIter THEN [its[x] EXCEPT !.rng = (r.it.rng + 1) % 64]
                 ELSE its[x]]
    /\ raised' = [raised EXCEPT ![w] = r.raised]
    /\ fetched' = [fetched EXCEPT ![w] = @ \o r.fetched]
    /\ outs' = [outs EXCEPT ![w] = IF r.raised = "none" THEN Append(@, r.sample) ELSE @]

\* the effect on worker w of a next() with outcome r
NextResult(w, r) ==
    /\ its' = [its EXCEPT ![w] = r.it]
    /\ raised' = [raised EXCEPT ![w] = r.raised]
    /\ fetched' = [fetched EXCEPT ![w] = @ \o r.fetched]
    /\ outs' = [outs EXCEPT ![w] = IF r.raised = "none" THEN Append(@, r.sample) ELSE @]

\* NextSample with the dataset's seed advanced by every call
NextSample_advances_seed(w) ==
    /\ its[w] # NoIter
    /\ Len(outs[w]) < MaxOut
    /\ Len(fetched[w]) < MaxOut
    /\ NextResult(w, PackedDatasetIterator_next(its[w], store))
    /\ ds' = [ds EXCEPT !.seed = @ + 1]
    /\ UNCHANGED <<store, hdr_src, hdr_in, hdr_out>>
    /\ UNCHANGED comb_vars
    /\ UNCHANGED aux_vars

\* dataset.py:163-177: next(iterator) in worker w
NextSample(w) ==
    /\ its[w] # NoIter
    /\ Len(outs[w]) < MaxOut
    /\ Len(fetched[w]) < MaxOut
    /\ NextResult(w, PackedDatasetIterator_next(its[w], store))
    /\ UNCHANGED <<store, ds, hdr_src, hdr_in, hdr_out>>
    /\ UNCHANGED comb_vars
    /\ UNCHANGED aux_vars

Next ==
    \/ \E w \in Workers(ds) : Spawn(w)
    \/ \E w \in Workers(ds) : NextSample(w)

Spec == Init /\ [][Next]_vars

SpecJob == JobInit /\ [][Next]_vars

PairNext ==
    \/ \E w \in Calls : Spawn(w)
    \/ \E w \in Calls : NextSample(w)

SpecPair == PairInit /\ [][PairNext]_vars

---------------------------------------------------------------------------
(* CombinedDataset and CombinedDatasetIterator.  Python's random.Random is  *)
(* outside the repository; it is modelled as a deterministic generator      *)
(* whose state is a number s below RandomUnits and whose random() advances  *)
(* the state and returns s / RandomUnits, a number of [0, 1).               *)

RandomUnits == 64

\* random.Random(seed), dataset.py:200
Random(seed) == seed % RandomUnits

\* the state after one call of random()
random_next(s) == (s * 21 + 13) % RandomUnits

\* weights=None
NoWeights == <<-1>>

\* dataset.py:182-188.  The default weights [1 / n] * n are kept as n times
\* the weight 1: random.choices depends on the weights only through the
\* ratio of their running sums to the total.
CombinedDataset_init(datasets, seed, weights) ==
    [seed     |-> seed,
     datasets |-> datasets,
     weights  |-> IF weights = NoWeights THEN [k \in 1..Len(datasets) |-> 1] ELSE weights]

\* weights[0] + ... + weights[k-1]
RECURSIVE sum_to(_, _)
sum_to(weights, k) == IF k = 0 THEN 0 ELSE weights[k] + sum_to(weights, k - 1)

\* list(itertools.accumulate(weights)) of random.choices
accumulate(weights) == [k \in 1..Len(weights) |-> sum_to(weights, k)]

\* bisect.bisect_right(a, x, lo, hi): the binary search of the standard library
RECURSIVE bisect(_, _, _, _)
bisect(a, x, lo, hi) ==
    IF lo >= hi THEN lo
    ELSE IF x < a[((lo + hi) \div 2) + 1] THEN bisect(a, x, lo, (lo + hi) \div 2)
    ELSE bisect(a, x, ((lo + hi) \div 2) + 1, hi)

\* the draw of random.choices for the generator state s1 that random() left:
\* bisect(cum_weights, random() * total, 0, n - 1), both sides of the
\* comparisons multiplied by RandomUnits
choices_draw(s1, cum) ==
    [raised |-> "none",
     index  |-> bisect([k \in 1..Len(cum) |-> cum[k] * RandomUnits],
                       s1 * cum[Len(cum)], 0, Len(cum) - 1),
     rng    |-> s1]

\* random.choices after the running sums: a total that is not positive
\* raises ValueError before random() is called
choices_cum(s, cum) ==
    IF cum[Len(cum)] <= 0 THEN [raised |-> "ValueError", index |-> NoneInt, rng |-> s]
    ELSE choices_draw(random_next(s), cum)

\* choices with the weights left out of the call: population[floor(random() * n)]
choices_unweighted(s, weights) ==
    [raised |-> "none",
     index  |-> (random_next(s) * Len(weights)) \div RandomUnits,
     rng    |-> random_next(s)]

\* self._rng.choices(self._datasets, weights=self._weights, k=1),
\* dataset.py:203-205, as the index of the element drawn
choices(s, weights) == choices_cum(s, accumulate(weights))

\* dataset.py:61-78 for the dataset d in the worker w
PackedDataset_iter(d, w, st) ==
    PackedDatasetIterator_init(shard_filenames(d, w), d.n_chunks, d.block_size,
                               d.seed, d.shuffle, d.wrap, st)

\* one element of the list of line 198, r being what iter(el) returned or raised
iter_one(acc, r) ==
    [its     |-> IF r.raised = "none" THEN Append(acc.its, r.it) ELSE acc.its,
     raised  |-> r.raised,
     fetched |-> acc.fetched \o r.fetched]

\* dataset.py:198, [iter(el) for el in datasets] from element k on; an
\* exception of a constructor ends the comprehension
RECURSIVE iter_all(_, _, _, _)
iter_all(datasets, k, acc, st) ==
    IF k > Len(datasets) \/ acc.raised # "none" THEN acc
    ELSE iter_all(datasets, k + 1, iter_one(acc, PackedDataset_iter(datasets[k], <<0, 0>>, st)), st)

\* dataset.py:198-200, a being the outcome of the comprehension
comb_new(c, a) ==
    [it      |-> IF a.raised = "none"
                 THEN [datasets |-> a.its, weights |-> c.weights, rng |-> Random(c.seed)]
                 ELSE NoIter,
     raised  |-> a.raised,
     fetched |-> a.fetched]

\* dataset.py:190-200: iter(combined_dataset)
CombinedDatasetIterator_init(c, st) ==
    comb_new(c, iter_all(c.datasets, 1, [its |-> <<>>, raised |-> "none", fetched |-> <<>>], st))

\* dataset.py:206, r being what next(dataset) of child i returned or raised
comb_result(c, i, r) ==
    [it      |-> [c EXCEPT !.datasets[i + 1] = r.it],
     raised  |-> r.raised,
     sample  |-> r.sample,
     picked  |-> <<i>>,
     pulled  |-> <<i>>,
     fetched |-> r.fetched]

\* comb_pull with the state the draw left the generator in dropped, as if
\* the generator were seeded again before every draw
comb_pull_reseeded(c, ch, st) ==
    IF ch.raised # "none"
    THEN [it |-> c, raised |-> ch.raised, sample |-> <<>>, picked |-> <<>>,
          pulled |-> <<>>, fetched |-> <<>>]
    ELSE comb_result(c, ch.index, PackedDatasetIterator_next(c.datasets[ch.index + 1], st))

\* dataset.py:203-206, ch being the outcome of the draw
comb_pull(c, ch, st) ==
    IF ch.raised # "none"
    THEN [it |-> c, raised |-> ch.raised, sample |-> <<>>, picked |-> <<>>,
          pulled |-> <<>>, fetched |-> <<>>]
    ELSE comb_result([c EXCEPT !.rng = ch.rng], ch.index,
                     PackedDatasetIterator_next(c.datasets[ch.index + 1], st))

\* every child advanced by a call, r being the outcome of the child drawn
comb_result_all(c, i, r, st) ==
    [it      |-> [c EXCEPT !.datasets =
                    [k \in 1..Len(c.datasets) |->
                       IF k = i + 1 THEN r.it
                       ELSE PackedDatasetIterator_next(c.datasets[k], st).it]],
     raised  |-> r.raised,
     sample  |-> r.sample,
     picked  |-> <<i>>,
     pulled  |-> [k \in 1..Len(c.datasets) |-> k - 1],
     fetched |-> r.fetched]

comb_pull_all(c, ch, st) ==
    IF ch.raised # "none"
    THEN [it |-> c, raised |-> ch.raised, sample |-> <<>>, picked |-> <<>>,
          pulled |-> <<>>, fetched |-> <<>>]
    ELSE comb_result_all([c EXCEPT !.rng = ch.rng], ch.index,
                         PackedDatasetIterator_next(c.datasets[ch.index + 1], st), st)

\* CombinedDatasetIterator_next with next() called on every child and the
\* sample of the child drawn returned
CombinedDatasetIterator_next_pulls_all(c, st) ==
    comb_pull_all(c, choices(c.rng, c.weights), st)

\* the outcome r of the child drawn, or, when it raised, the outcome of the
\* child after it
comb_fallback(c, i, r, j, st) ==
    IF r.raised = "none" \/ j = i THEN comb_result(c, i, r)
    ELSE [comb_result(c, j, PackedDatasetIterator_next(c.datasets[j + 1], st))
            EXCEPT !.pulled = <<i, j>>]

comb_pull_fallback(c, ch, st) ==
    IF ch.raised # "none"
    THEN [it |-> c, raised |-> ch.raised, sample |-> <<>>, picked |-> <<>>,
          pulled |-> <<>>, fetched |-> <<>>]
    ELSE comb_fallback([c EXCEPT !.rng = ch.rng], ch.index,
                       PackedDatasetIterator_next(c.datasets[ch.index + 1], st),
                       (ch.index + 1) % Len(c.datasets), st)

\* CombinedDatasetIterator_next that turns to the next child when the child
\* drawn raises
CombinedDatasetIterator_next_falls_back(c, st) ==
    comb_pull_fallback(c, choices(c.rng, c.weights), st)

\* dataset.py:202-206
CombinedDatasetIterator_next(c, st) == comb_pull(c, choices(c.rng, c.weights), st)

\* the files of the sources: well-formed uint8 files, two per source
CombStore ==
    [name \in {FileNames[k] : k \in 1..(2 * MaxSources)} |->
       FileOfKind("uint8", NameIndex(name))]

\* source k (from 1): a PackedDataset over the first nf of its two files,
\* one chunk per window, two elements per sample, not shuffled
Source(k, nf, wrap) ==
    [filenames |-> PyTake(<<FileNames[2 * k - 1], FileNames[2 * k]>>, nf),
     n_chunks |-> 1, block_size |-> 2, seed |-> 12345, shuffle |-> FALSE,
     wrap |-> wrap, num_processes |-> 1, num_workers |-> 1]

CombSeeds == {12345, 7, 39, 42}

\* a CombinedDataset over up to MaxSources sources
CombInit ==
    /\ store = CombStore
    /\ \E n \in 1..MaxSources :
         \E nfs \in [1..n -> 0..2], wrap \in BOOLEAN, seed \in CombSeeds,
            weights \in [1..n -> 0..MaxWeight] \cup {NoWeights} :
           cds = CombinedDataset_init([k \in 1..n |-> Source(k, nfs[k], wrap)], seed, weights)
    /\ comb = NoIter
    /\ comb_log = NoLog
    /\ AuxIdle
    /\ ds = NoCombined
    /\ its = <<>>
    /\ raised = <<>>
    /\ fetched = <<>>
    /\ outs = <<>>
    /\ hdr_src = NoHdr
    /\ hdr_in = NoBytes
    /\ hdr_out = NoResult

\* the effect of iter(combined_dataset) with outcome r
CombSpawnResult(r) ==
    /\ comb' = r.it
    /\ comb_log' = [comb_log EXCEPT !.raised = r.raised, !.fetched = @ \o r.fetched]

\* dataset.py:190-200: iter(combined_dataset), called once
CombSpawn ==
    /\ comb = NoIter
    /\ comb_log = NoLog
    /\ CombSpawnResult(CombinedDatasetIterator_init(cds, store))
    /\ UNCHANGED <<store, ds, its, raised, fetched, outs, hdr_src, hdr_in, hdr_out, cds>>
    /\ UNCHANGED aux_vars

\* the effect of a next() of the combined iterator with outcome r
CombNextResult(r) ==
    /\ comb' = r.it
    /\ comb_log' = [outs    |-> IF r.raised = "none" THEN Append(comb_log.outs, r.sample)
                                ELSE comb_log.outs,
                    raised  |-> r.raised,
                    picks   |-> comb_log.picks \o r.picked,
                    pulls   |-> comb_log.pulls \o r.pulled,
                    fetched |-> comb_log.fetched \o r.fetched]

\* dataset.py:202-206: next(combined_iterator)
CombNext ==
    /\ comb # NoIter
    /\ Len(comb_log.picks) < MaxOut
    /\ CombNextResult(CombinedDatasetIterator_next(comb, store))
    /\ UNCHANGED <<store, ds, its, raised, fetched, outs, hdr_src, hdr_in, hdr_out, cds>>
    /\ UNCHANGED aux_vars

CombStep == CombSpawn \/ CombNext

SpecComb == CombInit /\ [][CombStep]_vars

---------------------------------------------------------------------------
(* The header parser on its own: a header is encoded from fields, the file *)
(* is cut to a length, and _read parses what is left.                      *)

Magics == {HDR_MAGIC, BAD_MAGIC, <<108, 105, 116, 112, 107, 100, 115>>}
Versions == {0, 1, 2, 256, 257}
Codes == 0..9 \cup {255}
Sizes == {0, 1, ChunkElems, 255, 256, 65537}
Cuts == {0, 3, 7, 12, 15, 16, 20, 23, 24, 24 + ChunkElems}

HdrInit ==
    /\ hdr_src \in [magic : Magics, version : Versions, dtype_code : Codes,
                    chunk_size : Sizes, cut : Cuts]
    /\ hdr_in = NoBytes
    /\ hdr_out = NoResult
    /\ store = <<>>
    /\ ds = NoHdr
    /\ its = <<>>
    /\ raised = <<>>
    /\ fetched = <<>>
    /\ outs = <<>>
    /\ CombIdle
    /\ AuxIdle

\* the file: the header in the documented layout, ChunkElems payload bytes,
\* cut to hdr_src.cut bytes
EncodeStep ==
    /\ hdr_in = NoBytes
    /\ hdr_in' = PyTake(EncodeHeader(hdr_src.magic, hdr_src.version, hdr_src.dtype_code,
                                     hdr_src.chunk_size) \o Payload(1, ChunkElems),
                        hdr_src.cut)
    /\ UNCHANGED <<store, ds, its, raised, fetched, outs, hdr_src, hdr_out>>
    /\ UNCHANGED comb_vars
    /\ UNCHANGED aux_vars

\* dataset.py:113-121 on the downloaded bytes
ParseStep ==
    /\ hdr_in # NoBytes
    /\ hdr_out = NoResult
    /\ hdr_out' = read(hdr_in)
    /\ UNCHANGED <<store, ds, its, raised, fetched, outs, hdr_src, hdr_in>>
    /\ UNCHANGED comb_vars
    /\ UNCHANGED aux_vars

HdrNext == EncodeStep \/ ParseStep

SpecHdr == HdrInit /\ [][HdrNext]_vars

---------------------------------------------------------------------------
(* GCSFileSystem.rename.  A path is the record of the bucket and the object *)
(* name that parse_gcs_path finds in it, or BadPath.                        *)

\* the largest number of calls of rename in a run
MaxRenames == 2

Buckets == {"b1", "b2"}
ObjectNames == {"x", "y"}

Paths == {[bucket |-> b, name |-> n] : b \in Buckets, n \in ObjectNames} \cup {BadPath}

\* gcs_filesystem.py:48-49: parse_gcs_path(path) returns the bucket and the
\* object name of a path and raises ValueError for a path it rejects
parse_gcs_path(path) ==
    IF path = BadPath THEN [raised |-> "ValueError", bucket |-> "", name |-> ""]
    ELSE [raised |-> "none", bucket |-> path.bucket, name |-> path.name]

\* the outcome of a rename that raised before it reached the storage client
rename_raised(objs, e) == [raised |-> e, blobs |-> objs, issued |-> <<>>]

\* gcs_filesystem.py:54-55: bucket(new_bucket).rename_blob(blob, new_path) of
\* the storage client, blob being the object old_path of bucket old_bucket.
\* The service copies the object to the new name in the bucket and deletes
\* the old one, and answers NotFound when there is no such object.
rename_blob(objs, old_bucket, old_path, new_bucket, new_path) ==
    IF <<old_bucket, old_path>> \notin objs
    THEN [raised |-> "NotFound", blobs |-> objs,
          issued |-> <<[bucket |-> new_bucket, blob |-> <<old_bucket, old_path>>,
                        new_name |-> new_path]>>]
    ELSE [raised |-> "none",
          blobs  |-> (objs \ {<<old_bucket, old_path>>}) \cup {<<new_bucket, new_path>>},
          issued |-> <<[bucket |-> new_bucket, blob |-> <<old_bucket, old_path>>,
                        new_name |-> new_path]>>]

\* rename_parsed without the comparison of the buckets
rename_parsed_unchecked(objs, old, new) ==
    IF old.raised # "none" THEN rename_raised(objs, old.raised)
    ELSE IF new.raised # "none" THEN rename_raised(objs, new.raised)
    ELSE rename_blob(objs, old.bucket, old.name, new.bucket, new.name)

\* gcs_filesystem.py:48-55, old and new being the outcomes of parse_gcs_path
rename_parsed(objs, old, new) ==
    IF old.raised # "none" THEN rename_raised(objs, old.raised)
    ELSE IF new.raised # "none" THEN rename_raised(objs, new.raised)
    ELSE IF old.bucket # new.bucket THEN rename_raised(objs, "Exception")
    ELSE rename_blob(objs, old.bucket, old.name, new.bucket, new.name)

\* rename without the comparison of the buckets
rename_unchecked(objs, path, new_path) ==
    rename_parsed_unchecked(objs, parse_gcs_path(path), parse_gcs_path(new_path))

\* gcs_filesystem.py:46-55
rename(objs, path, new_path) ==
    rename_parsed(objs, parse_gcs_path(path), parse_gcs_path(new_path))

\* the dataset, the header parser and the combinator are not in use
DatasetIdle ==
    /\ store = <<>>
    /\ ds = NoCombined
    /\ its = <<>>
    /\ raised = <<>>
    /\ fetched = <<>>
    /\ outs = <<>>
    /\ hdr_src = NoHdr
    /\ hdr_in = NoBytes
    /\ hdr_out = NoResult
    /\ CombIdle

\* a storage service that holds any of the objects, and no call made
FsInit ==
    /\ blobs \in SUBSET (Buckets \X ObjectNames)
    /\ fs = NoFs
    /\ environ = NoEnviron
    /\ cma = NoFrame
    /\ DatasetIdle

\* the effect of a call of rename with outcome r
RenameResult(path, new_path, r) ==
    /\ blobs' = r.blobs
    /\ fs' = [count |-> fs.count + 1, path |-> path, new_path |-> new_path,
              raised |-> r.raised, issued |-> fs.issued \o r.issued]

\* gcs_filesystem.py:46-55: fs.rename(path, new_path)
Rename(path, new_path) ==
    /\ fs.count < MaxRenames
    /\ RenameResult(path, new_path, rename(blobs, path, new_path))
    /\ UNCHANGED <<store, ds, its, raised, fetched, outs, hdr_src, hdr_in, hdr_out>>
    /\ UNCHANGED comb_vars
    /\ UNCHANGED <<environ, cma>>

FsNext == \E path \in Paths, new_path \in Paths : Rename(path, new_path)

SpecFs == FsInit /\ [][FsNext]_vars

---------------------------------------------------------------------------
(* configure_master_addr.  os.environ is a function from the names of the   *)
(* variables that are set to their values.  A lookup is a call of           *)
(* socket.gethostbyname: it returns an address or raises socket.gaierror.   *)

\* ddp.py:38
max_coordinator_lookups == 50

\* the addresses the coordinator's name may resolve to
Addresses == {"10.0.0.1", "10.0.0.2"}

\* what a lookup returns or raises
LookupOutcomes == Addresses \cup {"socket.gaierror"}

\* os.environ before the call: COORDINATOR_ADDRESS set or not, and
\* MASTER_ADDR left by an earlier run or not
Environs ==
    {[k \in dom |-> IF k = "COORDINATOR_ADDRESS" THEN "coordinator" ELSE "10.9.9.9"] :
       dom \in SUBSET {"COORDINATOR_ADDRESS", "MASTER_ADDR"}}

\* os.environ[name] = value
setenv(env, name, value) ==
    [k \in DOMAIN env \cup {name} |-> IF k = name THEN value ELSE env[k]]

\* ddp.py:32-33, the frame at the start of the call; coordinator_found and
\* lookup_attempt are bound at lines 36-37 only, and answers keeps what the
\* lookups of the call returned or raised
new_frame ==
    [pc |-> "start", coordinator_address |-> "", coordinator_ip_address |-> "",
     coordinator_found |-> FALSE, lookup_attempt |-> 0, answers |-> <<>>]

\* loop_condition with the last attempt left out
loop_condition_exclusive(c) ==
    ~c.coordinator_found /\ c.lookup_attempt < max_coordinator_lookups

\* ddp.py:39
loop_condition(c) ==
    ~c.coordinator_found /\ c.lookup_attempt <= max_coordinator_lookups

\* ddp.py:40-49, one turn of the loop, a being what gethostbyname returned
\* or raised; time.sleep(5) returns
lookup(c, a) ==
    IF a = "socket.gaierror"
    THEN [c EXCEPT !.lookup_attempt = @ + 1, !.answers = Append(@, a)]
    ELSE [c EXCEPT !.coordinator_ip_address = a, !.coordinator_found = TRUE,
                   !.answers = Append(@, a)]

CmaInit ==
    /\ environ \in Environs
    /\ cma = new_frame
    /\ blobs = {}
    /\ fs = NoFs
    /\ DatasetIdle

\* the call touches nothing but os.environ and its frame
CmaOnly ==
    /\ UNCHANGED <<store, ds, its, raised, fetched, outs, hdr_src, hdr_in, hdr_out>>
    /\ UNCHANGED comb_vars
    /\ UNCHANGED <<blobs, fs>>

\* ddp.py:32-38
CmaStart ==
    /\ cma.pc = "start"
    /\ cma' = IF "COORDINATOR_ADDRESS" \in DOMAIN environ
              THEN [cma EXCEPT !.pc = "while",
                               !.coordinator_address = environ["COORDINATOR_ADDRESS"],
                               !.coordinator_found = FALSE,
                               !.lookup_attempt = 1]
              ELSE [cma EXCEPT !.pc = "print"]
    /\ UNCHANGED environ
    /\ CmaOnly

\* ddp.py:39-49: the loop is entered once more
CmaLookup ==
    /\ cma.pc = "while"
    /\ loop_condition(cma)
    /\ \E a \in LookupOutcomes : cma' = lookup(cma, a)
    /\ UNCHANGED environ
    /\ CmaOnly

\* ddp.py:39: the loop ends
CmaLoopEnd ==
    /\ cma.pc = "while"
    /\ ~loop_condition(cma)
    /\ cma' = [cma EXCEPT !.pc = "print"]
    /\ UNCHANGED environ
    /\ CmaOnly

\* ddp.py:50-51
CmaSet ==
    /\ cma.pc = "print"
    /\ environ' = setenv(environ, "MASTER_ADDR", cma.coordinator_ip_address)
    /\ cma' = [cma EXCEPT !.pc = "done"]
    /\ CmaOnly

CmaNext == CmaStart \/ CmaLookup \/ CmaLoopEnd \/ CmaSet

\* the call runs on: a lookup returns or raises, and sleep returns
SpecCma == CmaInit /\ [][CmaNext]_vars /\ WF_vars(CmaNext)

---------------------------------------------------------------------------
(* Properties. *)

Range(seq) == {seq[k] : k \in 1..Len(seq)}

\* the subset of worker w, and the list positions it is made of: the slice
\* of lines 68-69 applied to the list 1..len
ShardOf(w) == shard_filenames(ds, w)
ShardPositions(w) ==
    shard_filenames([ds EXCEPT !.filenames = [k \in 1..Len(ds.filenames) |-> k]], w)

NumShards == ds.num_workers * ds.num_processes
ShardId(w) == w[1] * ds.num_workers + w[2]
FilesPerShard == Len(ds.filenames) \div NumShards

NoRepeatedName == Cardinality(Range(ds.filenames)) = Len(ds.filenames)

RECURSIVE TotalFiles(_)
TotalFiles(S) ==
    IF S = {} THEN 0
    ELSE LET w == CHOOSE x \in S : TRUE
         IN  Len(ShardOf(w)) + TotalFiles(S \ {w})

\* C1 as stated: for every file list and every num_shards >= 1 the file
\* subsets of the shards are pairwise disjoint, and the shards hold
\* floor(len(filenames)/num_shards) * num_shards files in total.
C1_AsStated ==
    /\ \A w1, w2 \in Workers(ds) :
         w1 # w2 /\ its[w1] # NoIter /\ its[w2] # NoIter =>
           Range(its[w1].filenames) \cap Range(its[w2].filenames) = {}
    /\ TotalFiles(Workers(ds)) = FilesPerShard * NumShards

\* C1 (amended): the sets of list positions given to the shards are pairwise
\* disjoint and the shards hold floor(len(filenames)/num_shards) * num_shards
\* files in total; the file subsets themselves are pairwise disjoint when no
\* name occurs twice in the list; a spawned iterator holds exactly its subset.
C1_ShardsDisjoint ==
    /\ \A w1, w2 \in Workers(ds) :
         w1 # w2 =>
           /\ Range(ShardPositions(w1)) \cap Range(ShardPositions(w2)) = {}
           /\ NoRepeatedName => Range(ShardOf(w1)) \cap Range(ShardOf(w2)) = {}
    /\ \A w \in Workers(ds) :
         /\ Len(ShardPositions(w)) = Len(ShardOf(w))
         /\ \A j \in 1..Len(ShardOf(w)) : ShardOf(w)[j] = ds.filenames[ShardPositions(w)[j]]
         /\ its[w] # NoIter => its[w].filenames = ShardOf(w)
    /\ TotalFiles(Workers(ds)) = FilesPerShard * NumShards

\* two workers of a job of several shards hold iterators over non-empty
\* subsets, and the list has a trailing file that the truncation drops
C1_Witness ==
    /\ NumShards >= 2
    /\ Len(ds.filenames) % NumShards # 0
    /\ \E w1, w2 \in Workers(ds) :
         /\ w1 # w2
         /\ its[w1] # NoIter /\ its[w1].filenames # <<>>
         /\ its[w2] # NoIter /\ its[w2].filenames # <<>>

\* C2 as stated: every file a worker fetches belongs to that worker's own
\* subset, and no file is fetched by two different workers of the job.
C2_AsStated ==
    /\ \A w \in Workers(ds) : Range(fetched[w]) \subseteq Range(ShardOf(w))
    /\ \A w1, w2 \in Workers(ds) :
         w1 # w2 => Range(fetched[w1]) \cap Range(fetched[w2]) = {}

\* C2 (amended): under every interleaving, every file a worker fetches
\* belongs to that worker's own subset; when no name occurs twice in the
\* file list, no file is fetched by two different workers of the job.
C2_FetchesOwnShard ==
    /\ \A w \in Workers(ds) : Range(fetched[w]) \subseteq Range(ShardOf(w))
    /\ NoRepeatedName =>
         \A w1, w2 \in Workers(ds) :
           w1 # w2 => Range(fetched[w1]) \cap Range(fetched[w2]) = {}

\* in a job of two processes with two workers each, over a list without
\* repeated names, two workers have fetched and one has served its window
C2_Witness ==
    /\ NoRepeatedName
    /\ ds.num_processes >= 2 /\ ds.num_workers >= 2
    /\ \E w1, w2 \in Workers(ds) :
         /\ w1 # w2
         /\ fetched[w1] # <<>> /\ fetched[w2] # <<>>
         /\ outs[w1] # <<>>
         /\ raised[w2] # "none"

\* C3: the subset of shard s = process_rank * num_workers + worker_id has
\* floor(len/num_shards) files, its j-th file is filenames[s + j*num_shards],
\* and the positions from floor(len/num_shards)*num_shards on are in no shard.
C3_StridedSlice ==
    \A w \in Workers(ds) :
      /\ Len(ShardOf(w)) = FilesPerShard
      /\ \A j \in 0..(FilesPerShard - 1) :
           ShardOf(w)[j + 1] = ds.filenames[ShardId(w) + j * NumShards + 1]
      /\ \A q \in Range(ShardPositions(w)) : q <= FilesPerShard * NumShards
      /\ its[w] # NoIter => its[w].filenames = ShardOf(w)

\* a worker with a rank and a worker id above 0 holds an iterator over its
\* subset, and a trailing file of the list is in no shard
C3_Witness ==
    /\ Len(ds.filenames) > FilesPerShard * NumShards
    /\ \E w \in Workers(ds) :
         /\ w[1] >= 1 /\ w[2] >= 1
         /\ its[w] # NoIter
         /\ its[w].filenames = <<ds.filenames[ShardId(w) + 1]>>

---------------------------------------------------------------------------
(* Properties of the window and of the sample sequence. *)

\* a window is held: the last call of worker w returned and its iterator
\* holds buffers
WindowLoaded(w) == its[w] # NoIter /\ raised[w] = "none" /\ its[w].buffers # <<>>

\* the elements of file f, sliced directly from its payload by its own header
FileElems(f) ==
    frombuffer(PyFrom(store[f], HDR_SIZE), read(store[f]).dtype,
               read(store[f]).chunk_size, 0).arr

\* block b of file f for blocks of bs elements
DirectBlock(f, b, bs) == SubSeq(FileElems(f), b * bs + 1, b * bs + bs)

\* every file of the list is well formed, with the dtype and the element
\* count of the first
UniformFiles ==
    \A f \in Range(ds.filenames) :
      /\ read(store[f]).raised = "none"
      /\ read(store[f]).dtype = read(store[ds.filenames[1]]).dtype
      /\ read(store[f]).chunk_size = read(store[ds.filenames[1]]).chunk_size

\* the blocks per chunk of worker w's subset (0 for an empty subset)
NBlocksOf(w) ==
    IF ShardOf(w) = <<>> THEN 0
    ELSE read(store[ShardOf(w)[1]]).chunk_size \div ds.block_size

\* sample k (from 0) of the sequential order over worker w's subset: the
\* blocks of the first file in order, then those of the second, and so on
SequentialSample(w, k) ==
    DirectBlock(ShardOf(w)[(k \div NBlocksOf(w)) + 1], k % NBlocksOf(w), ds.block_size)

\* C4 as stated: after every window load, buffer i of the window holds the
\* payload of the file at position cursor+i of the subset, for every i in
\* 0..n_chunks-1, and each of these files has been fetched.
C4_AsStated ==
    \A w \in Workers(ds) :
      WindowLoaded(w) =>
        /\ Len(its[w].buffers) = its[w].n_chunks
        /\ \A i \in 0..(its[w].n_chunks - 1) :
             /\ its[w].buffers[i + 1] =
                  PyFrom(store[its[w].filenames[its[w].file_idx - its[w].n_chunks + i + 1]],
                         HDR_SIZE)
             /\ its[w].filenames[its[w].file_idx - its[w].n_chunks + i + 1]
                  \in Range(fetched[w])

\* C5 as stated: with shuffle=false, wrap=false and n_chunks=1 the samples
\* returned are, in order, the blocks 0..n_blocks-1 of the first file, then
\* those of the second file, and so on, and next() signals the end only
\* after the last block of the last file.
C5_AsStated ==
    \A w \in Workers(ds) :
      (~ds.shuffle /\ ~ds.wrap /\ ds.n_chunks = 1 /\ UniformFiles /\ NBlocksOf(w) >= 1) =>
        /\ Len(outs[w]) <= Len(ShardOf(w)) * NBlocksOf(w)
        /\ \A k \in 0..(Len(outs[w]) - 1) : outs[w][k + 1] = SequentialSample(w, k)
        /\ raised[w] \in {"none", "StopIteration"}
        /\ raised[w] = "StopIteration" => Len(outs[w]) = Len(ShardOf(w)) * NBlocksOf(w)

\* C6 as stated: with wrap=true every next() returns a sample; after the
\* files of the subset are consumed the sequence continues from the first
\* file of the subset.
C6_AsStated ==
    \A w \in Workers(ds) :
      (ds.wrap /\ UniformFiles /\ NBlocksOf(w) >= 1 /\ its[w] # NoIter) =>
        /\ raised[w] = "none"
        /\ ~ds.shuffle /\ Len(ShardOf(w)) % ds.n_chunks = 0 =>
             \A k \in 0..(Len(outs[w]) - 1) :
               outs[w][k + 1] = SequentialSample(w, k % (Len(ShardOf(w)) * NBlocksOf(w)))

\* C7 as stated: with wrap=false an iterator over F files performs
\* floor(F/n_chunks) successful loads, serves n_chunks*n_blocks samples from
\* each and then signals the end of the shard; nothing else is raised.
C7_AsStated ==
    \A w \in Workers(ds) :
      (~ds.wrap /\ UniformFiles /\ NBlocksOf(w) >= 1) =>
        /\ raised[w] \in {"none", "StopIteration"}
        /\ raised[w] = "StopIteration" =>
             Len(outs[w]) = (Len(ShardOf(w)) \div ds.n_chunks) * ds.n_chunks * NBlocksOf(w)
        /\ its[w] # NoIter /\ raised[w] = "StopIteration" =>
             its[w].file_idx = (Len(ShardOf(w)) \div ds.n_chunks) * ds.n_chunks

\* C9 as stated: a file with a malformed magic at any position of a window
\* makes the load fail, so no held window covers such a file, and no sample
\* of its bytes is returned (the payload bytes of file k are 10k..10k+9).
C9_AsStated ==
    \A w \in Workers(ds) :
      /\ WindowLoaded(w) =>
           \A i \in (its[w].file_idx - its[w].n_chunks + 1)..its[w].file_idx :
             PyTake(store[its[w].filenames[i]], Len(HDR_MAGIC)) = HDR_MAGIC
      /\ (its[w] # NoIter /\ its[w].dtype = "uint8") =>
           \A k \in 1..Len(outs[w]) : \A e \in Range(outs[w][k]) :
             PyTake(store[FileNames[e \div 10]], Len(HDR_MAGIC)) = HDR_MAGIC

---------------------------------------------------------------------------
(* Properties of the header parser. *)

Parsed == hdr_out # NoResult

\* one of the three violations the parser checks for, read off the bytes
FieldViolation ==
    \/ PyTake(hdr_in, Len(HDR_MAGIC)) # HDR_MAGIC
    \/ SubSeq(hdr_in, 8, Min(15, Len(hdr_in))) # PackLE(1, 8)
    \/ Len(hdr_in) < 16
    \/ hdr_in[16] \notin 1..8

HeaderErrors == {"AssertionError", "KeyError", "struct.error"}

\* C8 as stated: parsing fails when the magic differs from the marker, when
\* the version is not exactly 1 or when the dtype code is not in 1..8;
\* otherwise it succeeds and returns the dtype of the code and the count.
C8_AsStated ==
    Parsed =>
      IF FieldViolation THEN hdr_out.raised \in HeaderErrors
      ELSE /\ hdr_out.raised = "none"
           /\ hdr_out.dtype = dtypes[hdr_src.dtype_code]
           /\ hdr_out.chunk_size = hdr_src.chunk_size

\* C8 (amended): parsing fails when the magic differs from the marker, when
\* the version is not exactly 1, when the dtype code is not in 1..8, or when
\* the bytes end before the 24-byte header does; otherwise it succeeds and
\* returns the dtype of the code and the element count.
C8_HeaderValidation ==
    Parsed =>
      IF FieldViolation \/ Len(hdr_in) < HDR_SIZE THEN hdr_out.raised \in HeaderErrors
      ELSE /\ hdr_out.raised = "none"
           /\ hdr_out.dtype = dtypes[hdr_src.dtype_code]
           /\ hdr_out.chunk_size = hdr_src.chunk_size

\* a header whose three checked fields are right but whose element count is
\* cut short has been parsed, and the parse failed
C8_Witness ==
    /\ Parsed
    /\ ~FieldViolation
    /\ Len(hdr_in) = 23
    /\ hdr_out.raised = "struct.error"

\* C10: a header encoded with version 1, a dtype code k in 1..8 and an
\* element count n in the 24-byte layout parses to dtypes[k] and n, and
\* code(dtypes[k]) = k.
C10_HeaderRoundTrip ==
    (/\ Parsed
     /\ hdr_src.magic = HDR_MAGIC
     /\ hdr_src.version = 1
     /\ hdr_src.dtype_code \in 1..8
     /\ hdr_src.cut >= HDR_SIZE) =>
        /\ hdr_out.raised = "none"
        /\ hdr_out.dtype = dtypes[hdr_src.dtype_code]
        /\ hdr_out.chunk_size = hdr_src.chunk_size
        /\ code(hdr_out.dtype) = hdr_src.dtype_code
        /\ hdr_out.bytes_io = hdr_in

\* a complete header with the last dtype code and a count of three bytes
\* has been encoded and parsed
C10_Witness ==
    /\ Parsed
    /\ hdr_src.magic = HDR_MAGIC /\ hdr_src.version = 1
    /\ hdr_src.dtype_code = 8 /\ hdr_src.chunk_size = 65537
    /\ hdr_src.cut > HDR_SIZE
    /\ hdr_out.raised = "none"

---------------------------------------------------------------------------
(* Properties of two iterators of one dataset. *)

FirstCall == <<0, 0, 1>>
SecondCall == <<0, 0, 2>>

\* seq1 and seq2 agree wherever both have an entry
Agree(seq1, seq2) == \A k \in 1..Min(Len(seq1), Len(seq2)) : seq1[k] = seq2[k]

\* An iterator run alone: the state after iter(dataset), and the state after
\* each next() that follows it.
AloneSpawned ==
    LET r == PackedDatasetIterator_init(shard_filenames(ds, <<0, 0>>), ds.n_chunks,
                 ds.block_size, ds.seed, ds.shuffle, ds.wrap, store)
    IN  [it |-> IF r.raised = "none" THEN r.it ELSE NoIter, raised |-> r.raised,
         outs |-> <<>>]

AloneStep(a) ==
    IF a.it = NoIter \/ Len(a.outs) >= MaxOut THEN a
    ELSE LET r == PackedDatasetIterator_next(a.it, store)
         IN  [it |-> r.it, raised |-> r.raised,
              outs |-> IF r.raised = "none" THEN Append(a.outs, r.sample) ELSE a.outs]

RECURSIVE AloneAfter(_)
AloneAfter(k) == IF k = 0 THEN AloneSpawned ELSE AloneStep(AloneAfter(k - 1))

\* C11: two iterators built from the same seed, file subset and parameters
\* with shuffle enabled that have returned equally many samples hold the
\* same block-index permutation, at the same place, and the same generator
\* state; and the two return the same samples in the same order.
C11_SameSeedSamePermutation ==
    \A a, b \in Calls :
      (ds.shuffle /\ its[a] # NoIter /\ its[b] # NoIter) =>
        /\ (Len(outs[a]) = Len(outs[b]) /\ raised[a] = "none" /\ raised[b] = "none") =>
             /\ its[a].block_idxs = its[b].block_idxs
             /\ its[a].curr_idx = its[b].curr_idx
             /\ its[a].file_idx = its[b].file_idx
             /\ its[a].rng = its[b].rng
        /\ its[a].rng # NoRng
        /\ Agree(outs[a], outs[b])

\* two shuffling iterators hold a permutation that is not the ascending
\* order, and both have returned three samples
C11_Witness ==
    /\ ds.shuffle
    /\ \A w \in Calls :
         /\ its[w] # NoIter
         /\ Len(outs[w]) >= 3
         /\ \E k \in 1..Len(its[w].block_idxs) : its[w].block_idxs[k] # k - 1
    /\ outs[FirstCall][1] # outs[FirstCall][2]

\* C12: an iterator made by a later iter(dataset), whatever the iterators
\* made earlier have returned, starts in the state of a first iterator and
\* returns the samples the first one returns; neither iter(dataset) nor
\* next() changes a field of the dataset.
C12_RespawnRestarts ==
    /\ [](Agree(outs[FirstCall], outs[SecondCall]))
    /\ [][/\ ds' = ds
          /\ \A w \in Calls :
               (its[w] = NoIter /\ its'[w] # NoIter) =>
                 /\ its'[w] = AloneSpawned.it
                 /\ its'[w].curr_idx = 0
                 /\ its'[w].file_idx = ds.n_chunks
                 /\ its'[w].filenames = ds.filenames]_vars

\* the iterator of one call has returned its whole window and failed to go
\* on, and the iterator of the other call has since returned two samples
C12_Witness ==
    \E a, b \in Calls :
      /\ a # b
      /\ its[a] # NoIter /\ raised[a] # "none" /\ Len(outs[a]) >= 2
      /\ its[b] # NoIter /\ Len(outs[b]) = 2
      /\ its[b].curr_idx = 2
      /\ outs[b] = SubSeq(outs[a], 1, 2)

\* C13: under every interleaving each of the two iterators is in the state,
\* and has returned the samples, of an iterator run alone for as many calls
\* of next() (those that returned and up to two that raised); and a step changes
\* the file cursor, the buffers, the in-window cursor and the generator of at
\* most one iterator.
C13_NoSharedState ==
    /\ [](\A w \in Calls :
            (its[w] # NoIter \/ raised[w] # "none") =>
              \E k \in Len(outs[w])..(Len(outs[w]) + 2) :
                LET alone == AloneAfter(k)
                IN  /\ alone.it = its[w]
                    /\ alone.raised = raised[w]
                    /\ alone.outs = outs[w])
    /\ [][\A a, b \in Calls :
            (a # b /\ (its'[a] # its[a] \/ outs'[a] # outs[a] \/ raised'[a] # raised[a])) =>
              /\ its'[b] = its[b]
              /\ outs'[b] = outs[b]
              /\ raised'[b] = raised[b]
              /\ fetched'[b] = fetched[b]]_vars

\* the two iterators are at different places of the same shuffled window:
\* one has returned one sample, the other three
C13_Witness ==
    /\ ds.shuffle
    /\ its[FirstCall] # NoIter /\ its[SecondCall] # NoIter
    /\ its[FirstCall].curr_idx = 1 /\ Len(outs[FirstCall]) = 1
    /\ its[SecondCall].curr_idx = 3 /\ Len(outs[SecondCall]) = 3

---------------------------------------------------------------------------
(* Properties of the window and of one call of next(). *)

\* the exceptions _load_n_chunks raises before its first append
LoadErrors == {"StopIteration", "UnboundLocalError"}

\* C17: an iterator never holds more than n_chunks buffers; a window that is
\* held has exactly n_chunks buffers; and a load that raised before its first
\* append has left no buffer of the window before it.
C17_WindowBound ==
    \A w \in Workers(ds) :
      its[w] # NoIter =>
        /\ Len(its[w].buffers) <= its[w].n_chunks
        /\ WindowLoaded(w) => Len(its[w].buffers) = its[w].n_chunks
        /\ raised[w] \in LoadErrors => its[w].buffers = <<>>

\* an iterator with two chunks per window has returned the samples of its
\* window, and its reload has raised
C17_Witness ==
    \E w \in Workers(ds) :
      /\ its[w] # NoIter
      /\ its[w].n_chunks = 2
      /\ Len(outs[w]) = 2 * its[w].n_blocks
      /\ its[w].n_blocks >= 2
      /\ raised[w] \in LoadErrors
      /\ its[w].buffers = <<>>

\* block b of the window of iterator it, read off the buffer: block_size
\* elements of the window's dtype from element (b % n_blocks) * block_size of
\* buffer b // n_blocks
BlockOf(it, b) ==
    [k \in 1..it.block_size |->
       decode_elem(it.dtype,
         SubSeq(it.buffers[(b \div it.n_blocks) + 1],
                ((b % it.n_blocks) * it.block_size + k - 1) * itemsize(it.dtype) + 1,
                ((b % it.n_blocks) * it.block_size + k) * itemsize(it.dtype)))]

\* C18: a next() of an iterator whose in-window cursor is below the length of
\* the permutation returns block block_idxs[cursor] of the window, a vector
\* of block_size integers, adds 1 to the in-window cursor and changes no other
\* field of the iterator; it fetches nothing.
C18_NextServesBlock ==
    [][\A w \in Workers(ds) :
         (/\ its[w] # NoIter
          /\ its[w].curr_idx < Len(its[w].block_idxs)
          /\ <<its[w], outs[w], raised[w]>>' # <<its[w], outs[w], raised[w]>>) =>
            /\ raised'[w] = "none"
            /\ outs'[w] = Append(outs[w], BlockOf(its[w], its[w].block_idxs[its[w].curr_idx + 1]))
            /\ Len(outs'[w][Len(outs'[w])]) = its[w].block_size
            /\ \A e \in Range(outs'[w][Len(outs'[w])]) : e \in Int
            /\ its'[w] = [its[w] EXCEPT !.curr_idx = @ + 1]
            /\ fetched'[w] = fetched[w]]_vars

\* the third sample of a shuffled window of two chunks has been returned, in
\* blocks of two elements
C18_Witness ==
    \E w \in Workers(ds) :
      /\ its[w] # NoIter
      /\ ds.shuffle /\ ds.n_chunks = 2 /\ ds.block_size = 2
      /\ its[w].curr_idx = 3
      /\ Len(outs[w]) = 3
      /\ outs[w][3] = BlockOf(its[w], its[w].block_idxs[3])

\* C19: in a loaded window the block-index sequence has n_chunks * n_blocks
\* entries, every value of 0..n_chunks*n_blocks-1 is one of them (so each
\* occurs once), they ascend when shuffle is disabled, and the samples
\* returned since the load are the blocks at the entries before the cursor,
\* one sample per entry.
C19_BlockIndexPermutation ==
    \A w \in Workers(ds) :
      WindowLoaded(w) =>
        /\ Len(its[w].block_idxs) = its[w].n_chunks * its[w].n_blocks
        /\ Range(its[w].block_idxs) = 0..(its[w].n_chunks * its[w].n_blocks - 1)
        /\ ~its[w].shuffle => \A k \in 1..Len(its[w].block_idxs) : its[w].block_idxs[k] = k - 1
        /\ its[w].curr_idx <= Len(its[w].block_idxs)
        /\ its[w].curr_idx <= Len(outs[w])
        /\ \A k \in 1..its[w].curr_idx :
             outs[w][Len(outs[w]) - its[w].curr_idx + k] = BlockOf(its[w], its[w].block_idxs[k])

\* every block of a shuffled window of four or more blocks has been
\* returned, in an order that is not the ascending one
C19_Witness ==
    \E w \in Workers(ds) :
      /\ WindowLoaded(w)
      /\ its[w].shuffle
      /\ Len(its[w].block_idxs) >= 4
      /\ its[w].curr_idx = Len(its[w].block_idxs)
      /\ \E k \in 1..Len(its[w].block_idxs) : its[w].block_idxs[k] # k - 1

\* every file of the list parses
WellFormedFiles == \A f \in Range(ds.filenames) : read(store[f]).raised = "none"

\* the position in the subset of the first file of the window that the last
\* load of iterator it was of: the load advanced the file cursor unless it raised
LastWindowStart(it, e) == IF e = "none" THEN it.file_idx - it.n_chunks ELSE it.file_idx

\* C20 as stated: after every load that found n_chunks files ahead, the
\* window's dtype, chunk element count and n_blocks are those of the header
\* of the first file of that window.
C20_AsStated ==
    \A w \in Workers(ds) :
      (WellFormedFiles /\ its[w] # NoIter /\ raised[w] # "StopIteration") =>
        /\ its[w].dtype =
             read(store[its[w].filenames[LastWindowStart(its[w], raised[w]) + 1]]).dtype
        /\ its[w].chunk_size =
             read(store[its[w].filenames[LastWindowStart(its[w], raised[w]) + 1]]).chunk_size
        /\ its[w].n_blocks =
             read(store[its[w].filenames[LastWindowStart(its[w], raised[w]) + 1]]).chunk_size
               \div its[w].block_size

---------------------------------------------------------------------------
(* Properties of the combined iterator. *)

\* a step is a call of next() on the combined iterator that left a trace
CombCalled == comb # NoIter /\ <<comb, comb_log>>' # <<comb, comb_log>>

\* the call drew an index
CombDrew == Len(comb_log'.picks) > Len(comb_log.picks)

\* the index drawn by the call
LastPick == comb_log'.picks[Len(comb_log'.picks)]

\* what next() of child i (from 0) of the combined iterator returns or raises
ChildNext(i) == PackedDatasetIterator_next(comb.datasets[i + 1], store)

\* the children other than child i are as they were
OthersUnchanged(i) ==
    /\ Len(comb'.datasets) = Len(comb.datasets)
    /\ \A j \in 1..Len(comb.datasets) : j # i + 1 => comb'.datasets[j] = comb.datasets[j]

TotalWeight == sum_to(cds.weights, Len(cds.weights))

\* C14: a next() of the combined iterator draws one source index, calls
\* next() of that source's iterator once and of no other, returns the sample
\* that call returned, and leaves the iterators of the other sources as they
\* were; a call that cannot draw (no positive weight) changes no iterator.
C14_OneSourceAdvanced ==
    [][CombCalled =>
         IF CombDrew
         THEN /\ comb_log'.picks = Append(comb_log.picks, LastPick)
              /\ LastPick \in 0..(Len(comb.datasets) - 1)
              /\ comb_log'.pulls = Append(comb_log.pulls, LastPick)
              /\ comb'.datasets[LastPick + 1] = ChildNext(LastPick).it
              /\ OthersUnchanged(LastPick)
              /\ comb_log'.raised = "none" =>
                   /\ comb_log'.outs = Append(comb_log.outs, ChildNext(LastPick).sample)
                   /\ comb'.datasets[LastPick + 1].curr_idx >= 1
              /\ comb_log'.raised # "none" => comb_log'.outs = comb_log.outs
         ELSE /\ comb' = comb
              /\ comb_log'.outs = comb_log.outs
              /\ comb_log'.pulls = comb_log.pulls
              /\ TotalWeight <= 0]_vars

\* both sources of a combined iterator have been drawn and have returned
\* samples, and their iterators are at different places
C14_Witness ==
    /\ comb # NoIter
    /\ Len(comb.datasets) = 2
    /\ Len(comb_log.outs) >= 3
    /\ {0, 1} \subseteq Range(comb_log.picks)
    /\ comb.datasets[1].curr_idx = 2
    /\ comb.datasets[2].curr_idx = 1
    /\ comb_log.raised = "none"

\* the names of the files of source i (from 1), as positions of FileNames
SourceFiles(i) == {NameIndex(f) : f \in Range(cds.datasets[i].filenames)}

\* C15: a source of weight 0 is never drawn while another source has a
\* positive weight: its index is in no draw, its iterator is as iter() made
\* it, and no sample returned holds an element of its files (the payload
\* bytes of file k are 10k..10k+9).
C15_ZeroWeightNeverDrawn ==
    comb # NoIter =>
      \A i \in 1..Len(comb.datasets) :
        (comb.weights[i] = 0 /\ TotalWeight > 0) =>
          /\ i - 1 \notin Range(comb_log.picks)
          /\ i - 1 \notin Range(comb_log.pulls)
          /\ comb.datasets[i] = PackedDataset_iter(cds.datasets[i], <<0, 0>>, store).it
          /\ \A k \in 1..Len(comb_log.outs) : \A e \in Range(comb_log.outs[k]) :
               e \div 10 \notin SourceFiles(i)

\* with the weights [1, 0] over two sources five calls have drawn, and the
\* samples of the first source's window have been returned
C15_Witness ==
    /\ comb # NoIter
    /\ comb.weights = <<1, 0>>
    /\ Len(comb_log.picks) >= 5
    /\ Len(comb_log.outs) >= 2
    /\ comb.datasets[2].curr_idx = 0

\* C16: when next() of the source drawn raises (the end of its data, or an
\* error), the next() of the combined iterator raises that exception: it
\* has drawn once, called next() of that one source once, returned no sample
\* and left the other sources' iterators as they were.
C16_ChildOutcomeVerbatim ==
    [][(CombCalled /\ CombDrew /\ ChildNext(LastPick).raised # "none") =>
         /\ comb_log'.raised = ChildNext(LastPick).raised
         /\ Len(comb_log'.picks) = Len(comb_log.picks) + 1
         /\ comb'.rng = random_next(comb.rng)
         /\ comb_log'.pulls = Append(comb_log.pulls, LastPick)
         /\ comb_log'.outs = comb_log.outs
         /\ comb_log'.fetched = comb_log.fetched \o ChildNext(LastPick).fetched
         /\ OthersUnchanged(LastPick)]_vars

\* the last call drew a source whose files are used up and raised
\* StopIteration, while the other source, of positive weight, has a block
\* left in its window
C16_Witness ==
    /\ comb # NoIter
    /\ Len(comb.datasets) = 2
    /\ comb.weights[1] > 0 /\ comb.weights[2] > 0
    /\ comb_log.raised = "StopIteration"
    /\ comb_log.picks # <<>>
    /\ \E j \in 1..2 :
         /\ j # comb_log.picks[Len(comb_log.picks)] + 1
         /\ comb.datasets[j].curr_idx < Len(comb.datasets[j].block_idxs)

---------------------------------------------------------------------------
(* Properties of the end of a shard and of the file cursor. *)

\* the number of files of iterator it from its file cursor to the end
FilesAhead(it) == Len(it.filenames) - it.file_idx

\* C21 as stated: with wrap disabled, the end of the shard reaches the
\* consumer as StopIteration raised by next() of an iterator and as nothing
\* else: iter(dataset) returns an iterator for every shard, a shard of fewer
\* than n_chunks files included, and a next() that finds fewer than n_chunks
\* files ahead raises StopIteration.
C21_AsStated ==
    \A w \in Workers(ds) :
      ~ds.wrap =>
        /\ raised[w] = "StopIteration" => its[w] # NoIter
        /\ (/\ its[w] # NoIter
            /\ raised[w] # "none"
            /\ its[w].curr_idx >= Len(its[w].block_idxs)
            /\ its[w].n_chunks > FilesAhead(its[w])) => raised[w] = "StopIteration"

\* C22 as stated: no load reads the file list at a position outside it, so
\* no constructor ends in the IndexError of line 139, and the file cursor of
\* an iterator never passes the end of the list.
C22_AsStated ==
    \A w \in Workers(ds) :
      /\ its[w] = NoIter => raised[w] # "IndexError"
      /\ its[w] # NoIter => its[w].file_idx <= Len(its[w].filenames)

\* C23: the file cursor of an iterator is a multiple of n_chunks from 0 to
\* the length of its file list; the load of the constructor leaves it at
\* n_chunks with the in-window cursor at 0; a next() that reloads and returns
\* a sample leaves it n_chunks after the position the load started at (0
\* after the reset of wrap) with the in-window cursor on the second entry;
\* and a next() that raises StopIteration leaves it where it was.
C23_FileCursor ==
    /\ [](\A w \in Workers(ds) :
            its[w] # NoIter =>
              /\ its[w].file_idx % its[w].n_chunks = 0
              /\ its[w].file_idx >= 0
              /\ its[w].file_idx <= Len(its[w].filenames))
    /\ [][\A w \in Workers(ds) :
            /\ (its[w] = NoIter /\ its'[w] # NoIter) =>
                 /\ its'[w].file_idx = its'[w].n_chunks
                 /\ its'[w].curr_idx = 0
            /\ (/\ its[w] # NoIter
                /\ its[w].curr_idx >= Len(its[w].block_idxs)
                /\ its'[w] # its[w]
                /\ raised'[w] = "none") =>
                 /\ its'[w].file_idx =
                      (IF its[w].n_chunks > FilesAhead(its[w]) THEN 0 ELSE its[w].file_idx)
                        + its[w].n_chunks
                 /\ its'[w].curr_idx = 1
            /\ (its[w] # NoIter /\ raised'[w] = "StopIteration") =>
                 its'[w].file_idx = its[w].file_idx]_vars

\* an iterator of two chunks per window over three files has served its
\* window and has raised StopIteration with the file cursor at 2
C23_Witness ==
    \E w \in Workers(ds) :
      /\ its[w] # NoIter
      /\ its[w].n_chunks = 2
      /\ Len(its[w].filenames) = 3
      /\ Len(outs[w]) >= 2
      /\ raised[w] = "StopIteration"
      /\ its[w].file_idx = 2

---------------------------------------------------------------------------
(* Properties of the slices taken by next(). *)

\* the number of elements of iterator it's dtype held in its buffer i (from 0)
ElemsHeld(it, i) == Len(it.buffers[i + 1]) \div itemsize(it.dtype)

\* C24: every block index that next() has still to read in the window lies
\* in a buffer of the window, b // n_blocks being below the number of
\* buffers, and its slice ends inside that buffer, (b % n_blocks) * block_size
\* + block_size being at most the number of elements the buffer holds; and no
\* next() has ended in the ValueError of a slice past the end of a buffer.
C24_SliceInsideBuffer ==
    \A w \in Workers(ds) :
      /\ raised[w] # "ValueError"
      /\ its[w] # NoIter =>
           \A k \in (its[w].curr_idx + 1)..Len(its[w].block_idxs) :
             /\ its[w].block_idxs[k] \div its[w].n_blocks < Len(its[w].buffers)
             /\ (its[w].block_idxs[k] % its[w].n_blocks) * its[w].block_size
                  + its[w].block_size
                  <= ElemsHeld(its[w], its[w].block_idxs[k] \div its[w].n_blocks)

\* a shuffled window of two chunks is held with one sample returned, and the
\* slice of one of the blocks still to be read ends at the end of its buffer
C24_Witness ==
    \E w \in Workers(ds) :
      /\ its[w] # NoIter
      /\ its[w].shuffle
      /\ Len(its[w].buffers) = 2
      /\ Len(outs[w]) = 1
      /\ \E k \in (its[w].curr_idx + 1)..Len(its[w].block_idxs) :
           (its[w].block_idxs[k] % its[w].n_blocks) * its[w].block_size
             + its[w].block_size
             = ElemsHeld(its[w], its[w].block_idxs[k] \div its[w].n_blocks)

\* the files of iterator it whose header parses
ParsedFiles(it) == {f \in Range(it.filenames) : read(store[f]).raised = "none"}

\* the elements of file f that lie after the last whole block of iterator it:
\* those at positions n_blocks * block_size and later (from 0)
Remainder(it, f) ==
    {FileElems(f)[p] : p \in (it.n_blocks * it.block_size + 1)..Len(FileElems(f))}

\* C25: n_blocks is the chunk element count divided by block_size, rounded
\* down, and no sample returned by next() holds an element that a file of
\* the list stores at position n_blocks * block_size or later.
C25_RemainderNeverServed ==
    \A w \in Workers(ds) :
      its[w] # NoIter =>
        /\ its[w].n_blocks = its[w].chunk_size \div its[w].block_size
        /\ its[w].n_blocks * its[w].block_size <= its[w].chunk_size
        /\ \A k \in 1..Len(outs[w]), f \in ParsedFiles(its[w]) :
             Range(outs[w][k]) \cap Remainder(its[w], f) = {}

\* every block of a shuffled window of two chunks has been returned, and the
\* chunks end in elements that fill no block
C25_Witness ==
    \E w \in Workers(ds) :
      /\ its[w] # NoIter
      /\ its[w].shuffle
      /\ its[w].n_chunks = 2
      /\ its[w].n_blocks >= 1
      /\ its[w].chunk_size % its[w].block_size # 0
      /\ Len(outs[w]) = Len(its[w].block_idxs)
      /\ \A f \in ParsedFiles(its[w]) : Remainder(its[w], f) # {}

---------------------------------------------------------------------------
(* Properties of the calls that fetch. *)

\* the position in the file list at which a load of worker w starts: 0 in the
\* constructor and after the reset of wrap, the file cursor otherwise
LoadStart(w) ==
    IF its[w] = NoIter THEN 0
    ELSE IF its[w].n_chunks > FilesAhead(its[w]) THEN 0
    ELSE its[w].file_idx

\* the names of the window that a load of worker w is of
WindowNames(w) ==
    {ShardOf(w)[j] : j \in (LoadStart(w) + 1)..Min(LoadStart(w) + ds.n_chunks, Len(ShardOf(w)))}

\* C26: a step that fetches is the constructor's load or a next() whose
\* in-window cursor has reached the length of the permutation, and the names
\* it fetches are files of the window it loads; a next() that finds a block
\* still to be served fetches nothing and leaves the buffers, the
\* permutation and the file cursor of the window as they are.
C26_FetchOnlyInLoad ==
    [][\A w \in Workers(ds) :
         /\ fetched'[w] # fetched[w] =>
              /\ its[w] = NoIter \/ its[w].curr_idx >= Len(its[w].block_idxs)
              /\ \A k \in (Len(fetched[w]) + 1)..Len(fetched'[w]) :
                   fetched'[w][k] \in WindowNames(w)
         /\ (its[w] # NoIter /\ its[w].curr_idx < Len(its[w].block_idxs)) =>
              /\ fetched'[w] = fetched[w]
              /\ its'[w] # NoIter
              /\ its'[w].buffers = its[w].buffers
              /\ its'[w].block_idxs = its[w].block_idxs
              /\ its'[w].file_idx = its[w].file_idx]_vars

\* the constructor has fetched, three calls of next() have served blocks of
\* the window without a fetch, and a block is still to be served
C26_Witness ==
    \E w \in Workers(ds) :
      /\ its[w] # NoIter
      /\ Len(fetched[w]) = 1
      /\ Len(outs[w]) = 3
      /\ its[w].curr_idx = 3
      /\ its[w].curr_idx < Len(its[w].block_idxs)

\* C28: a next() of an iterator without wrap whose last call raised
\* StopIteration raises StopIteration again, returns no sample and fetches
\* nothing.
C28_EndOfDataPersists ==
    [][\A w \in Workers(ds) :
         (its[w] # NoIter /\ ~its[w].wrap /\ raised[w] = "StopIteration") =>
           /\ raised'[w] = "StopIteration"
           /\ its'[w] # NoIter
           /\ outs'[w] = outs[w]
           /\ fetched'[w] = fetched[w]]_vars

\* an iterator without wrap over one file has returned every block of its
\* shuffled window and has raised StopIteration
C28_Witness ==
    \E w \in Workers(ds) :
      /\ its[w] # NoIter
      /\ ~its[w].wrap
      /\ its[w].shuffle
      /\ Len(its[w].filenames) = 1
      /\ Len(outs[w]) = Len(its[w].block_idxs)
      /\ Len(outs[w]) >= 2
      /\ raised[w] = "StopIteration"

---------------------------------------------------------------------------
(* The sequence of sources drawn by a combined iterator. *)

\* the state of a generator made by random.Random(seed) after k calls of random()
RECURSIVE StateAfter(_, _)
StateAfter(seed, k) == IF k = 0 THEN Random(seed) ELSE random_next(StateAfter(seed, k - 1))

\* C27: the k-th index drawn by a combined iterator is the one random.choices
\* draws from the weights with the generator that random.Random(seed) made and
\* that k-1 draws have advanced, whatever the sources returned or raised in
\* between, and the iterator's generator is in the state that as many draws
\* as were made lead to from the seed: the sequence of indices is determined
\* by the seed and the weights, so that two iterators built with the same
\* seed, weights and sources draw the same sequence.
C27_SameSeedSameDraws ==
    comb # NoIter =>
      /\ comb.rng = StateAfter(cds.seed, Len(comb_log.picks))
      /\ comb.weights = cds.weights
      /\ \A k \in 1..Len(comb_log.picks) :
           comb_log.picks[k] = choices(StateAfter(cds.seed, k - 1), cds.weights).index

\* four indices have been drawn from two sources of positive weight, both
\* sources among them, and a call in between has raised
C27_Witness ==
    /\ comb # NoIter
    /\ Len(comb_log.picks) = 4
    /\ Range(comb_log.picks) = {0, 1}
    /\ \A k \in 1..Len(cds.weights) : cds.weights[k] > 0
    /\ Len(comb_log.outs) < 4

---------------------------------------------------------------------------
(* Properties of GCSFileSystem.rename. *)

\* the call of rename made by the step, when both of its paths parse
RenameOfParsedPaths ==
    /\ fs'.count = fs.count + 1
    /\ fs'.path # BadPath
    /\ fs'.new_path # BadPath

\* C29: a call of rename whose paths name different buckets raises, issues
\* no rename_blob and leaves every object as it was; a call whose paths name
\* the same bucket issues one rename_blob, of the object the old path names
\* to the name of the new path in that bucket, and nothing else.
C29_RenameWithinOneBucket ==
    [][RenameOfParsedPaths =>
         /\ fs'.path.bucket # fs'.new_path.bucket =>
              /\ fs'.raised = "Exception"
              /\ fs'.issued = fs.issued
              /\ blobs' = blobs
         /\ fs'.path.bucket = fs'.new_path.bucket =>
              /\ fs'.raised # "Exception"
              /\ fs'.issued =
                   Append(fs.issued,
                          [bucket   |-> fs'.path.bucket,
                           blob     |-> <<fs'.path.bucket, fs'.path.name>>,
                           new_name |-> fs'.new_path.name])
              /\ <<fs'.path.bucket, fs'.path.name>> \in blobs =>
                   blobs' = (blobs \ {<<fs'.path.bucket, fs'.path.name>>})
                              \cup {<<fs'.path.bucket, fs'.new_path.name>>}]_vars

\* a rename within one bucket has moved an object, and a later rename from
\* that bucket to the other has raised
C29_Witness ==
    /\ fs.count = 2
    /\ Len(fs.issued) = 1
    /\ fs.issued[1].blob[2] # fs.issued[1].new_name
    /\ <<fs.issued[1].bucket, fs.issued[1].new_name>> \in blobs
    /\ fs.path # BadPath
    /\ fs.new_path # BadPath
    /\ fs.path.bucket # fs.new_path.bucket
    /\ fs.path.bucket = fs.issued[1].bucket
    /\ fs.raised = "Exception"

---------------------------------------------------------------------------
(* Properties of configure_master_addr. *)

\* the address the lookups of the call resolved the coordinator to, "" when
\* none of them succeeded
Resolved ==
    IF cma.answers # <<>> /\ cma.answers[Len(cma.answers)] \in Addresses
    THEN cma.answers[Len(cma.answers)]
    ELSE ""

\* C30: the call returns; it makes at most 50 lookups and none after a
\* lookup that succeeded; and when it has returned, MASTER_ADDR is the
\* address the succeeding lookup returned, or "" after 50 failed lookups
\* when COORDINATOR_ADDRESS is set and after no lookup when it is not set.
C30_BoundedLookups ==
    /\ <>(cma.pc = "done")
    /\ [](/\ Len(cma.answers) <= max_coordinator_lookups
          /\ \A k \in 1..(Len(cma.answers) - 1) : cma.answers[k] = "socket.gaierror")
    /\ [](cma.pc = "done" =>
            /\ "MASTER_ADDR" \in DOMAIN environ
            /\ environ["MASTER_ADDR"] = Resolved
            /\ ("COORDINATOR_ADDRESS" \in DOMAIN environ /\ Resolved = "") =>
                 Len(cma.answers) = max_coordinator_lookups
            /\ "COORDINATOR_ADDRESS" \notin DOMAIN environ => cma.answers = <<>>)

\* the call has returned after 50 failed lookups and has set MASTER_ADDR,
\* which an earlier run had left set, to the empty string
C30_Witness ==
    /\ cma # NoFrame
    /\ cma.pc = "done"
    /\ Len(cma.answers) = max_coordinator_lookups
    /\ cma.answers[max_coordinator_lookups] = "socket.gaierror"
    /\ environ["MASTER_ADDR"] = ""

=============================================================================
